---- MODULE Spec2Model ----
(***************************************************************************)
(* Model of the quota-aware fetch client of StockOverview:                 *)
(* DataFetcher._rate_limited_request, _reset_daily_counter_if_needed and   *)
(* get_rate_limit_status (src/modules/data_fetcher.py).                    *)
(*                                                                         *)
(* Every coroutine step between two awaits is one action.  Wall-clock time *)
(* is held relative to the events the code compares it with: for every     *)
(* credential the seconds elapsed since api_key_timers[hash] was written   *)
(* (saturating at min_interval, the only value the code compares it to),   *)
(* and for every sleeping coroutine the seconds left of its asyncio.sleep. *)
(***************************************************************************)
EXTENDS Integers, Sequences, FiniteSets, TLC

\* ------------------------------------------------------------ configuration

\* FMP_RATE_LIMIT_PER_DAY as configured for the run (environment variable,
\* default 250); kept small so that the limit is reached.
rate_limit_per_day == 2

\* Number of calendar-date changes a run may see.
MaxDate == 1

\* FMP_RATE_LIMIT_PER_MINUTE (default 5).
rate_limit_per_minute == 5

\* FMP_RETRY_DELAY in seconds (default 60).
retry_delay == 60

\* max_retries parameter of _rate_limited_request (default 3, no caller overrides it).
max_retries == 3

\* Hard-coded backoff bases, in seconds.
Delay502 == 10
Delay503 == 15
DelayOther == 5

\* min_interval = 60 / rate_limit_per_minute  (seconds between calls)
min_interval == 60 \div rate_limit_per_minute

\* Coroutines that call the fetch client, and credentials they pass.
Tasks == {"t1", "t2"}
Keys == {"keyA", "keyB"}
NoKey == "None"

\* self.fmp_api_key: the process-default credential.
fmp_api_key == "keyA"

\* Variant: every key has the same hash.
_get_api_key_hash_one(k) == "h_a"

\* _get_api_key_hash: md5 of the key, a one-way map taken to be injective.
_get_api_key_hash(k) == IF k = "keyA" THEN "h_a" ELSE "h_b"

Hashes == {_get_api_key_hash(k) : k \in Keys}

NoDate == -1

\* Outcomes of one HTTP GET: a status code, a 2xx whose body is not JSON,
\* a connection failure or a timeout.
Responses == {"200", "200_badjson", "429", "502", "503", "401", "403", "404",
              "500", "connect", "timeout"}

VARIABLES
    date,                   \* datetime.now().date(), as a day number
    api_key_timers,         \* per hash: seconds since the stored last-call time
    api_key_daily_counts,   \* per hash: daily_count
    api_key_reset_dates,    \* per hash: reset date, NoDate when absent
    pc,                     \* per task: position in _rate_limited_request
    api_key_hash,           \* per task: local api_key_hash
    daily_count,            \* per task: local daily_count read at line 52
    attempt,                \* per task: loop variable of line 67
    sleep_left,             \* per task: seconds left of the current asyncio.sleep
    result,                 \* per task: "payload" or the error raised
    calls,                  \* per task: HTTP GETs issued by this fetch
    last,                   \* per task: the answer to the latest GET, or "none"
    prior,                  \* per task: what the earlier GETs of this fetch were answered
    backoff_total,          \* per task: sum of the backoff sleeps this fetch asked for
    reset_from,             \* per task: daily_count the entry reset found, or -1
    since_net,              \* per hash: seconds since the last GET was issued
    ok_2xx,                 \* per hash: 2xx responses on the current date
    payloads,               \* per hash: payloads returned on the current date
    status_out,             \* snapshot returned by get_rate_limit_status
    history,                \* are the per-fetch history variables recorded
    prof_pc,                \* position of the get_company_profile / get_key_metrics coroutine
    prof_key,               \* its api_key argument
    profile,                \* the profile dict it is working on, then returns
    locals,                 \* shares_outstanding, reported_mkt_cap, price of _validate_and_fix_market_cap
    metrics,                \* metrics[0] as returned by get_key_metrics
    fetched,                \* supplementary resources fetched for this profile
    api_key,                \* per task: the api_key argument of its fetch
    asked,                  \* the api_key argument of the latest status query
    eval_pc,                \* position of the evaluate_company coroutine
    custom_weights,         \* its custom_weights argument
    weights,                \* self.scorer.weights
    eval_out,               \* what evaluate_company returned or raised
    health                  \* status reported by the latest /health request

vars == <<date, api_key_timers, api_key_daily_counts, api_key_reset_dates, pc,
          api_key_hash, daily_count, attempt, sleep_left, result, calls,
          last, prior, backoff_total, reset_from, since_net, ok_2xx, payloads,
          status_out, history, prof_pc, prof_key, profile, locals, metrics,
          fetched, api_key, asked, eval_pc, custom_weights, weights, eval_out,
          health>>

profVars == <<prof_pc, prof_key, profile, locals, metrics, fetched>>

argVars == <<api_key, asked>>

evalVars == <<eval_pc, custom_weights, weights, eval_out, health>>

\* A step of the fetch client taken outside get_company_profile,
\* get_key_metrics, evaluate_company and the /health request.
Quiet == UNCHANGED <<profVars, argVars, evalVars>>

\* A step of get_company_profile or get_key_metrics called on its own.
Apart == UNCHANGED <<argVars, evalVars>>

NoStatus == [hash |-> "none", used |-> 0, remaining |-> 0]

\* A history variable takes its value only in runs that record history.
Rec(x, off) == IF history THEN x ELSE off

Min(a, b) == IF a < b THEN a ELSE b
Max(a, b) == IF a > b THEN a ELSE b

\* Counters of what happened on a date are told apart up to limit + 1.
Bump(n) == Min(n + 1, rate_limit_per_day + 1)

\* ------------------------------------------------------------ pure helpers

\* Variant: the counter is reset only for a credential never seen before.
NeedsReset_first_use_only(h) == api_key_reset_dates[h] = NoDate

\* line 38: the counter is reset when the hash is unknown or the date differs
NeedsReset(h) ==
    api_key_reset_dates[h] = NoDate \/ date # api_key_reset_dates[h]

\* Variant: the counter is cleared on every use.
CountAfterReset_always_zero(h) == 0

\* lines 39, 52: daily_count as read after _reset_daily_counter_if_needed
CountAfterReset(h) == IF NeedsReset(h) THEN 0 ELSE api_key_daily_counts[h]

\* Variant: the gate lets the call at the limit through.
QuotaGate_strict(count) == count > rate_limit_per_day

\* Variant: no gate.
QuotaGate_absent(count) == FALSE

\* line 53: the daily-quota gate
QuotaGate(count) == count >= rate_limit_per_day

\* Variant: no pacing.
PacingWait_none(time_since_last) == 0

\* lines 59-63: the pacing wait for a given time_since_last (0 = no wait)
PacingWait(time_since_last) ==
    IF time_since_last < min_interval THEN min_interval - time_since_last ELSE 0

\* line 109: the daily count stored after a 2xx
CountAfterSuccess(count) == count + 1

\* Variant: one attempt too many is taken for a retry.
HasRetry_one_more(a) == a < max_retries

\* Variant: two attempts too many are taken for a retry.
HasRetry_two_more(a) == a < max_retries + 1

\* line 78 (and 89, 99, 138, 147, 155): is another attempt left
HasRetry(a) == a < max_retries - 1

\* Variant: the 429 backoff is scaled by the attempt index, not by index + 1.
BackoffWait_from_zero(r, a) ==
    CASE r = "429" -> retry_delay * a
      [] r = "502" -> Delay502 * (a + 1)
      [] r = "503" -> Delay503 * (a + 1)
      [] OTHER     -> DelayOther * (a + 1)

\* Variant: a 503 is backed off like a 502.
BackoffWait_503_as_502(r, a) ==
    CASE r = "429" -> retry_delay * (a + 1)
      [] r = "502" -> Delay502 * (a + 1)
      [] r = "503" -> Delay502 * (a + 1)
      [] OTHER     -> DelayOther * (a + 1)

\* lines 79, 90, 100, 139, 148, 156: the backoff after a retryable outcome
BackoffWait(r, a) ==
    CASE r = "429" -> retry_delay * (a + 1)
      [] r = "502" -> Delay502 * (a + 1)
      [] r = "503" -> Delay503 * (a + 1)
      [] OTHER     -> DelayOther * (a + 1)

\* Variant: every failure is retried.
Retryable_all_errors(r) == r # "200"

\* Variant: a timeout is not retried.
Retryable_no_timeout(r) == r \in {"429", "502", "503", "connect", "200_badjson"}

\* Outcomes that reach a retry branch (429/502/503 in the try body, connect
\* and timeout in their handlers, a JSON error in the generic handler).
Retryable(r) == r \in {"429", "502", "503", "connect", "timeout", "200_badjson"}

\* Is the status answered with 2xx
Is2xx(r) == r \in {"200", "200_badjson"}

\* lines 84, 95, 105, 127-135, 144, 153, 161: the error a failed fetch raises
ErrorOf(r) ==
    CASE r = "429"     -> "RateLimitExceeded"
      [] r = "502"     -> "UpstreamUnavailable"
      [] r = "503"     -> "UpstreamUnavailable"
      [] r = "401"     -> "InvalidCredential"
      [] r = "403"     -> "PermissionDenied"
      [] r = "404"     -> "ResourceNotFound"
      [] r = "500"     -> "UpstreamInternalError"
      [] r = "connect" -> "NetworkError"
      [] r = "timeout" -> "NetworkError"
      [] OTHER         -> "JSONDecodeError"

\* lines 54, 84, 95, 105, 127-135, 144, 153: every error the code builds is a
\* plain Exception; line 161 re-raises whatever the try body raised, which
\* for an unparsable body is the JSON decoder's own error.
RaisedClass(e) == IF e = "JSONDecodeError" THEN "JSONDecodeError" ELSE "Exception"

\* What a fetch may raise.
Errors == {"DailyQuotaExceeded"} \cup {ErrorOf(r) : r \in Responses \ {"200"}}

\* What the answers to the earlier GETs of a fetch have in common: all 429,
\* all 502/503, all connection failures or timeouts, or none of these.
ClassOf(r) ==
    CASE r = "429" -> "429"
      [] r \in {"502", "503"} -> "unavailable"
      [] r \in {"connect", "timeout"} -> "network"
      [] OTHER -> "mixed"

Fold(p, r) == IF p = "none" \/ p = ClassOf(r) THEN ClassOf(r) ELSE "mixed"


\* ------------------------------------------------------------ profile data

\* Field values the upstream sends.  A number of 0 also stands for a field
\* that is absent (profile.get(name, 0)); "" for an absent or empty name.
\* mktCap / price divides evenly for every pair drawn from these sets, so
\* the float quotient of line 216 is the integer quotient.
Prices == {0, 1, 2}
Shares == {0, 19, 20}
MktCaps == {0, 20, 38, 40}
Names == {"", "Acme"}
QuoteMktCaps == {0, 40}
QuotePrices == {0, 2}
MetricsMktCaps == {0, 40}
RevenuesPerShare == {0, 3}

\* The profile dict before anything is known; also the dict of line 204 but
\* for its tag.
NoProfile ==
    [sharesOutstanding |-> 0, mktCap |-> 0, price |-> 0, companyName |-> "",
     shares_calculated |-> FALSE, mkt_cap_calculated |-> FALSE,
     price_from_quote |-> FALSE, mkt_cap_from_metrics |-> FALSE,
     profile_freshness |-> ""]

NoLocals == [shares_outstanding |-> 0, reported_mkt_cap |-> 0, price |-> 0]

NoMetrics == [marketCap |-> 0, revenuePerShare |-> 0, metrics_freshness |-> ""]

\* data[0] of a profile payload
ProfileData ==
    {[NoProfile EXCEPT !.sharesOutstanding = sh, !.mktCap = mc, !.price = pr,
                       !.companyName = nm] :
        sh \in Shares, mc \in MktCaps, pr \in Prices, nm \in Names}

\* data[0] of a quote payload; the empty dict of line 274 has both fields 0
QuoteData == [marketCap : QuoteMktCaps, price : QuotePrices]

\* Variant: a failed quote fetch is taken for a quote.
NoQuote_some == [marketCap |-> 40, price |-> 2]

NoQuote == [marketCap |-> 0, price |-> 0]

\* data[0] of a key-metrics payload
MetricsData ==
    {[NoMetrics EXCEPT !.marketCap = mc, !.revenuePerShare = rv] :
        mc \in MetricsMktCaps, rv \in RevenuesPerShare}

\* lines 210-212: the locals read from the profile
LocalsOf(p) ==
    [shares_outstanding |-> p.sharesOutstanding, reported_mkt_cap |-> p.mktCap,
     price |-> p.price]

Abs(x) == IF x < 0 THEN -x ELSE x

\* lines 224-228: (discrepancy / reported_mkt_cap) * 100 > 5, and 0 > 5 when
\* reported_mkt_cap is 0
DiscrepancyOver5(reported_mkt_cap, calculated_mkt_cap) ==
    /\ reported_mkt_cap > 0
    /\ Abs(reported_mkt_cap - calculated_mkt_cap) * 100 > 5 * reported_mkt_cap

\* lines 215-231: the corrections made from the profile's own fields
FixFromProfile(p) ==
    LET l == LocalsOf(p) IN
    IF l.shares_outstanding = 0 /\ l.price > 0 /\ l.reported_mkt_cap > 0
    THEN [p EXCEPT !.sharesOutstanding = l.reported_mkt_cap \div l.price,
                   !.shares_calculated = TRUE]
    ELSE IF l.shares_outstanding > 0 /\ l.price > 0
         THEN IF DiscrepancyOver5(l.reported_mkt_cap, l.price * l.shares_outstanding)
              THEN [p EXCEPT !.mktCap = l.price * l.shares_outstanding,
                             !.mkt_cap_calculated = TRUE]
              ELSE p
         ELSE p

\* line 234: is the quote fetched
NeedsQuote(l) == l.shares_outstanding = 0 \/ l.price = 0

\* line 249: are the key metrics fetched
NeedsMetrics(l) == l.shares_outstanding = 0 \/ l.reported_mkt_cap = 0

\* lines 236-246: the backfill from the quote (a quote with both fields 0
\* changes nothing, as the empty dict)
FixFromQuote(p, l, q) ==
    LET p1 == IF l.shares_outstanding = 0 /\ q.marketCap > 0 /\ q.price > 0
              THEN [p EXCEPT !.sharesOutstanding = q.marketCap \div q.price,
                             !.shares_calculated = TRUE]
              ELSE p
    IN  IF l.price = 0 /\ q.price > 0
        THEN [p1 EXCEPT !.price = q.price, !.price_from_quote = TRUE]
        ELSE p1

\* lines 251-255: the backfill from the key metrics
FixFromMetrics(p, l, m) ==
    IF l.reported_mkt_cap = 0 /\ m.marketCap > 0
    THEN [p EXCEPT !.mktCap = m.marketCap, !.mkt_cap_from_metrics = TRUE]
    ELSE p

\* Variant: the tag looks at the market cap only.
ProfileFreshness_mktcap_only(p) == IF p.mktCap = 0 THEN "fallback" ELSE "fresh"

\* lines 197-200: not profile.get('mktCap') or not profile.get('companyName')
ProfileFreshness(p) ==
    IF p.mktCap = 0 \/ p.companyName = "" THEN "fallback" ELSE "fresh"

\* lines 319-322
MetricsFreshness(m) ==
    IF m.marketCap = 0 \/ m.revenuePerShare = 0 THEN "fallback" ELSE "fresh"

\* ------------------------------------------------------------ scoring weights

Categories == {"financial_health", "business_fundamentals", "valuation",
               "growth_potential", "sentiment"}

\* scoring.py lines 7-13: the weights, in hundredths
DefaultWeights ==
    [financial_health |-> 35, business_fundamentals |-> 20, valuation |-> 20,
     growth_potential |-> 15, sentiment |-> 10]

\* custom_weights omitted (None) or empty: both fail the test of line 66
NoWeights == [c \in {} |-> 0]

\* custom_weights a request may carry (main.py line 258): any dict
CustomWeights == {[c \in {"financial_health"} |-> 50]}

\* evaluator.py lines 66-67: self.scorer.weights.update(custom_weights)
UpdatedWeights(w, cw) ==
    IF DOMAIN cw # {}
    THEN [c \in Categories |-> IF c \in DOMAIN cw THEN cw[c] ELSE w[c]]
    ELSE w

\* final_scores of evaluator.py lines 184-190, as the scorers and the
\* language model give them
ScoreVectors ==
    {[financial_health |-> 80, business_fundamentals |-> 60, valuation |-> 50,
      growth_potential |-> 40, sentiment |-> 70],
     [financial_health |-> 20, business_fundamentals |-> 60, valuation |-> 90,
      growth_potential |-> 40, sentiment |-> 30]}

NoScores ==
    [financial_health |-> 0, business_fundamentals |-> 0, valuation |-> 0,
     growth_potential |-> 0, sentiment |-> 0]

\* evaluator.py lines 193-196: sum(score * weights[category]), in hundredths
Composite(sc, w) ==
    sc.financial_health * w["financial_health"]
    + sc.business_fundamentals * w["business_fundamentals"]
    + sc.valuation * w["valuation"]
    + sc.growth_potential * w["growth_potential"]
    + sc.sentiment * w["sentiment"]

\* ------------------------------------------------------------ error messages

\* str(e).lower() of what _rate_limited_request raises, word by word
\* (data_fetcher.py lines 54, 84, 127 and the others)
Message(e) ==
    CASE e = "DailyQuotaExceeded" ->
            <<"daily", "rate", "limit", "exceeded", "for", "api", "key">>
      [] e = "RateLimitExceeded" ->
            <<"rate", "limit", "exceeded", "after", "all", "retries">>
      [] e = "InvalidCredential" ->
            <<"invalid", "api", "key", "for", "financial", "modeling", "prep">>
      [] OTHER ->
            <<"financial", "modeling", "prep", "api", "error">>

\* phrase in text
Contains(text, phrase) ==
    \E i \in 1..(Len(text) - Len(phrase) + 1) :
        SubSeq(text, i, i + Len(phrase) - 1) = phrase

\* evaluator.py lines 277-285: the error evaluate_company raises for the
\* message of the error it caught
EvalErrorOf(text) ==
    IF Contains(text, <<"rate", "limit">>) \/ Contains(text, <<"429">>)
    THEN "API rate limit exceeded"
    ELSE IF Contains(text, <<"daily", "rate", "limit", "exceeded">>)
         THEN "Daily API limit reached"
         ELSE "Error fetching data"

\* main.py lines 180-186: the status for a daily usage of used out of limit
HealthOf(used, limit) ==
    IF used * 100 > 80 * limit THEN "degraded"
    ELSE IF used * 100 > 95 * limit THEN "unhealthy"
    ELSE "healthy"

\* What evaluate_company has returned or raised.
NoOut == [kind |-> "none", cause |-> "none", message |-> "none", used |-> 0,
          scores |-> NoScores, composite |-> 0]


\* ------------------------------------------------------------ initial state

InitState ==
    /\ date = 0
    /\ api_key_timers = [h \in Hashes |-> min_interval]
    /\ api_key_daily_counts = [h \in Hashes |-> 0]
    /\ api_key_reset_dates = [h \in Hashes |-> NoDate]
    /\ pc = [t \in Tasks |-> "idle"]
    /\ api_key_hash = [t \in Tasks |-> "none"]
    /\ daily_count = [t \in Tasks |-> 0]
    /\ attempt = [t \in Tasks |-> 0]
    /\ sleep_left = [t \in Tasks |-> 0]
    /\ result = [t \in Tasks |-> "none"]
    /\ calls = [t \in Tasks |-> 0]
    /\ last = [t \in Tasks |-> "none"]
    /\ prior = [t \in Tasks |-> "none"]
    /\ backoff_total = [t \in Tasks |-> 0]
    /\ reset_from = [t \in Tasks |-> -1]
    /\ since_net = [h \in Hashes |-> min_interval]
    /\ ok_2xx = [h \in Hashes |-> 0]
    /\ payloads = [h \in Hashes |-> 0]
    /\ status_out = NoStatus
    /\ prof_pc = "idle"
    /\ prof_key = NoKey
    /\ profile = NoProfile
    /\ locals = NoLocals
    /\ metrics = NoMetrics
    /\ fetched = {}
    /\ api_key = [t \in Tasks |-> "none"]
    /\ asked = "none"
    /\ eval_pc = "idle"
    /\ custom_weights = NoWeights
    /\ weights = DefaultWeights
    /\ eval_out = NoOut
    /\ health = "none"

\* Overlapping fetches are followed without the per-fetch history.
Init == InitState /\ history = FALSE

\* A single caller's fetches are followed with it.
InitSeq == InitState /\ history = TRUE

\* ------------------------------------------------------------ actions

\* lines 45-46, 165-166: an omitted credential is the process default
Resolve(k) == IF k = NoKey THEN fmp_api_key ELSE k

\* _rate_limited_request, lines 45-70, up to its first await: the reset, the
\* quota gate, the pacing check and either the pacing sleep or the first GET.
Enter(t, k) ==
    LET h == _get_api_key_hash(Resolve(k))
        count == CountAfterReset(h)
        wait == PacingWait(api_key_timers[h])
    IN  /\ pc[t] = "idle"
        /\ api_key_daily_counts' = [api_key_daily_counts EXCEPT ![h] = count]
        /\ api_key_reset_dates' = [api_key_reset_dates EXCEPT ![h] = date]
        /\ api_key_hash' = [api_key_hash EXCEPT ![t] = h]
        /\ daily_count' = [daily_count EXCEPT ![t] = count]
        /\ reset_from' = [reset_from EXCEPT ![t] =
                Rec(IF NeedsReset(h) THEN api_key_daily_counts[h] ELSE -1, -1)]
        /\ attempt' = [attempt EXCEPT ![t] = 0]
        /\ UNCHANGED <<last, prior, backoff_total>>
        /\ IF QuotaGate(count)
           THEN /\ pc' = [pc EXCEPT ![t] = "done"]
                /\ result' = [result EXCEPT ![t] = "DailyQuotaExceeded"]
                /\ UNCHANGED <<sleep_left, calls, since_net>>
           ELSE /\ result' = [result EXCEPT ![t] = "none"]
                /\ IF wait > 0
                   THEN /\ pc' = [pc EXCEPT ![t] = "pacing"]
                        /\ sleep_left' = [sleep_left EXCEPT ![t] = wait]
                        /\ UNCHANGED <<calls, since_net>>
                   ELSE /\ pc' = [pc EXCEPT ![t] = "request"]
                        /\ calls' = [calls EXCEPT ![t] = Rec(1, 0)]
                        /\ since_net' = [since_net EXCEPT ![h] = 0]
                        /\ UNCHANGED sleep_left
        /\ status_out' = NoStatus
        /\ UNCHANGED history
        /\ UNCHANGED <<date, api_key_timers, ok_2xx, payloads>>

\* lines 65, 81, 92, 102, 117, 122, 141, 150, 158: asyncio.sleep is over;
\* the loop goes on to the GET of line 70 (the next attempt after a backoff).
Wake(t) ==
    /\ pc[t] \in {"pacing", "backoff"}
    /\ sleep_left[t] = 0
    /\ attempt' = [attempt EXCEPT ![t] = IF pc[t] = "backoff" THEN @ + 1 ELSE @]
    /\ pc' = [pc EXCEPT ![t] = "request"]
    /\ prior' = [prior EXCEPT ![t] = Rec(Fold(@, last[t]), "none")]
    /\ last' = [last EXCEPT ![t] = "none"]
    /\ calls' = [calls EXCEPT ![t] = Rec(@ + 1, 0)]
    /\ since_net' = [since_net EXCEPT ![api_key_hash[t]] = 0]
    /\ status_out' = NoStatus
    /\ UNCHANGED history
    /\ UNCHANGED <<date, api_key_timers, api_key_daily_counts, api_key_reset_dates,
                   api_key_hash, daily_count, sleep_left, result, backoff_total,
                   reset_from, ok_2xx, payloads>>

\* lines 70-161: the GET of attempt[t] is answered with r.
Respond(t, r) ==
    LET h == api_key_hash[t]
        a == attempt[t]
    IN  /\ pc[t] = "request"
        /\ last' = [last EXCEPT ![t] = Rec(r, "none")]
        /\ IF Is2xx(r)
           THEN \* lines 107-109
                /\ api_key_timers' = [api_key_timers EXCEPT ![h] = 0]
                /\ api_key_daily_counts' = [api_key_daily_counts EXCEPT ![h] =
                        CountAfterSuccess(daily_count[t])]
                /\ ok_2xx' = [ok_2xx EXCEPT ![h] = Bump(@)]
           ELSE UNCHANGED <<api_key_timers, api_key_daily_counts, ok_2xx>>
        /\ IF r = "200"
           THEN \* line 110
                /\ pc' = [pc EXCEPT ![t] = "done"]
                /\ result' = [result EXCEPT ![t] = "payload"]
                /\ payloads' = [payloads EXCEPT ![h] = Rec(Bump(@), 0)]
                /\ UNCHANGED <<sleep_left, backoff_total>>
           ELSE IF Retryable(r) /\ HasRetry(a)
                THEN /\ pc' = [pc EXCEPT ![t] = "backoff"]
                     /\ sleep_left' = [sleep_left EXCEPT ![t] = BackoffWait(r, a)]
                     /\ backoff_total' = [backoff_total EXCEPT ![t] = Rec(@ + BackoffWait(r, a), 0)]
                     /\ UNCHANGED <<result, payloads>>
                ELSE /\ pc' = [pc EXCEPT ![t] = "done"]
                     /\ result' = [result EXCEPT ![t] = ErrorOf(r)]
                     /\ UNCHANGED <<sleep_left, backoff_total, payloads>>
        /\ status_out' = NoStatus
        /\ UNCHANGED history
        /\ UNCHANGED <<date, api_key_reset_dates, api_key_hash, daily_count,
                       attempt, calls, prior, reset_from, since_net>>

\* The caller takes the result; the coroutine is gone.
Return(t) ==
    /\ pc[t] = "done"
    /\ pc' = [pc EXCEPT ![t] = "idle"]
    /\ api_key_hash' = [api_key_hash EXCEPT ![t] = "none"]
    /\ daily_count' = [daily_count EXCEPT ![t] = 0]
    /\ attempt' = [attempt EXCEPT ![t] = 0]
    /\ result' = [result EXCEPT ![t] = "none"]
    /\ calls' = [calls EXCEPT ![t] = 0]
    /\ last' = [last EXCEPT ![t] = "none"]
    /\ prior' = [prior EXCEPT ![t] = "none"]
    /\ backoff_total' = [backoff_total EXCEPT ![t] = 0]
    /\ reset_from' = [reset_from EXCEPT ![t] = -1]
    /\ status_out' = NoStatus
    /\ UNCHANGED history
    /\ UNCHANGED <<date, api_key_timers, api_key_daily_counts, api_key_reset_dates,
                   sleep_left, since_net, ok_2xx, payloads>>

\* get_rate_limit_status, lines 163-182
get_rate_limit_status(k) ==
    LET h == _get_api_key_hash(Resolve(k))
        count == CountAfterReset(h)
    IN  /\ api_key_daily_counts' = [api_key_daily_counts EXCEPT ![h] = count]
        /\ api_key_reset_dates' = [api_key_reset_dates EXCEPT ![h] = date]
        /\ status_out' = [hash |-> h, used |-> count,
                          remaining |-> rate_limit_per_day - count]
        /\ UNCHANGED history
        /\ UNCHANGED <<date, api_key_timers, pc, api_key_hash, daily_count,
                       attempt, sleep_left, result, calls, last, prior,
                       backoff_total, reset_from, since_net, ok_2xx, payloads>>

\* Time passes until a pending deadline: the end of some coroutine's sleep,
\* or the end of some credential's pacing interval.
Deadlines ==
    {sleep_left[t] : t \in {u \in Tasks : pc[u] \in {"pacing", "backoff"}}}
    \cup {min_interval - api_key_timers[h] : h \in Hashes}

Advance(d) ==
    /\ d > 0
    /\ sleep_left' = [t \in Tasks |-> Max(0, sleep_left[t] - d)]
    /\ api_key_timers' = [h \in Hashes |-> Min(min_interval, api_key_timers[h] + d)]
    /\ since_net' = [h \in Hashes |-> Min(min_interval, since_net[h] + d)]
    /\ status_out' = NoStatus
    /\ UNCHANGED history
    /\ UNCHANGED <<date, api_key_daily_counts, api_key_reset_dates, pc,
                   api_key_hash, daily_count, attempt, result, calls, last,
                   prior, backoff_total, reset_from, ok_2xx, payloads>>

\* Midnight: datetime.now().date() moves on.
DateTick ==
    /\ date < MaxDate
    /\ date' = date + 1
    /\ ok_2xx' = [h \in Hashes |-> 0]
    /\ payloads' = [h \in Hashes |-> 0]
    /\ status_out' = NoStatus
    /\ UNCHANGED history
    /\ UNCHANGED <<api_key_timers, api_key_daily_counts, api_key_reset_dates, pc,
                   api_key_hash, daily_count, attempt, sleep_left, result, calls,
                   last, prior, backoff_total, reset_from, since_net>>

\* ------------------------------------------------------------ specifications

\* Answers the upstream gives while fetches overlap: a payload, a 2xx that
\* cannot be parsed, a retryable status and a terminal status.
OverlapResponses == {"200", "200_badjson", "429", "401"}

\* The instant at which every pending sleep and pacing interval has run out.
LastDeadline == {d \in Deadlines : \A e \in Deadlines : e <= d}

\* Concurrent callers sharing the default credential: coroutines enter, sleep
\* and are answered in any order (the orchestrator's asyncio.gather, and
\* requests served at the same time).  Time is looked at when every pending
\* sleep is over; a coroutine may still wake long after its sleep ended.
Next ==
    \/ \E t \in Tasks, k \in {fmp_api_key, NoKey} : Enter(t, k) /\ Quiet
    \/ \E t \in Tasks : Wake(t) /\ Quiet
    \/ \E t \in Tasks, r \in OverlapResponses : Respond(t, r) /\ Quiet
    \/ \E t \in Tasks : Return(t) /\ Quiet
    \/ \E k \in {fmp_api_key, NoKey} : get_rate_limit_status(k) /\ Quiet
    \/ \E d \in LastDeadline : Advance(d) /\ Quiet
    \/ DateTick /\ Quiet

Spec == Init /\ [][Next]_vars

\* A single caller: it awaits each fetch before it issues the next, all on
\* the default credential, and the upstream may answer anything.
SeqEnter(t, k) ==
    /\ \A u \in Tasks : pc[u] = "idle"
    /\ Enter(t, k)

NextSeq ==
    \/ \E t \in Tasks, k \in {fmp_api_key, NoKey} : SeqEnter(t, k) /\ Quiet
    \/ \E t \in Tasks : Wake(t) /\ Quiet
    \/ \E t \in Tasks, r \in Responses : Respond(t, r) /\ Quiet
    \/ \E t \in Tasks : Return(t) /\ Quiet
    \/ \E k \in {fmp_api_key, NoKey} : get_rate_limit_status(k) /\ Quiet
    \/ \E d \in Deadlines : Advance(d) /\ Quiet
    \/ DateTick /\ Quiet

SeqSpec == InitSeq /\ [][NextSeq]_vars

\* The same caller under the scheduling the code relies on: the event loop
\* resumes a coroutine whose sleep is over, every GET comes to an outcome
\* (the client's 30-second timeout at the latest), and time passes.
LiveSpec ==
    /\ InitSeq
    /\ [][NextSeq]_vars
    /\ WF_vars(\E t \in Tasks : Wake(t) /\ Quiet)
    /\ WF_vars(\E t \in Tasks, r \in Responses : Respond(t, r) /\ Quiet)
    /\ WF_vars(\E d \in Deadlines : Advance(d) /\ Quiet)


\* ------------------------------------------------------------ profile fetch

\* The coroutine in which get_company_profile and get_key_metrics await
\* _rate_limited_request.
Sub == "t1"

\* Has the awaited fetch ended, and how.
SubEnded == pc[Sub] = "done"
SubPayload == result[Sub] = "payload"

\* The return of line 201: the profile with its tag.
Tagged(p) == [p EXCEPT !.profile_freshness = ProfileFreshness(p)]

\* get_company_profile, lines 186-189: down to the first await inside
\* _rate_limited_request.
get_company_profile(k) ==
    /\ prof_pc = "idle"
    /\ Enter(Sub, k)
    /\ prof_pc' = "profile"
    /\ prof_key' = k
    /\ UNCHANGED <<profile, locals, metrics, fetched>>

\* What follows the corrections of lines 215-231 and of lines 236-246: the
\* call of line 235, the call of line 250, or the return of line 201.
AfterProfileFix(p, l) ==
    IF NeedsQuote(l)
    THEN prof_pc' = "quote_call" /\ profile' = p
    ELSE IF NeedsMetrics(l)
         THEN prof_pc' = "metrics_call" /\ profile' = p
         ELSE prof_pc' = "profile_done" /\ profile' = Tagged(p)

AfterQuoteFix(p, l) ==
    IF NeedsMetrics(l)
    THEN prof_pc' = "metrics_call" /\ profile' = p
    ELSE prof_pc' = "profile_done" /\ profile' = Tagged(p)

\* Lines 189-234: the profile fetch has ended.  Its error is raised to the
\* caller; an empty payload gives the dict of line 204; otherwise data[0] is
\* corrected from its own fields and the coroutine goes on to the next call
\* or returns.
ProfileReturned ==
    /\ prof_pc = "profile"
    /\ SubEnded
    /\ Return(Sub)
    /\ IF ~SubPayload
       THEN /\ prof_pc' = "raised"
            /\ UNCHANGED <<profile, locals>>
       ELSE \/ /\ prof_pc' = "profile_done"
               /\ profile' = [NoProfile EXCEPT !.profile_freshness = "fallback"]
               /\ UNCHANGED locals
            \/ \E data \in ProfileData :
                  /\ locals' = LocalsOf(data)
                  /\ AfterProfileFix(FixFromProfile(data), LocalsOf(data))
    /\ UNCHANGED <<prof_key, metrics, fetched>>

\* _get_real_time_quote, lines 265-268, called at line 235.
QuoteCall ==
    /\ prof_pc = "quote_call"
    /\ Enter(Sub, prof_key)
    /\ prof_pc' = "quote"
    /\ fetched' = fetched \cup {"quote"}
    /\ UNCHANGED <<prof_key, profile, locals, metrics>>

\* Lines 268-274 and 236-249: the quote fetch has ended; its error is
\* swallowed, an empty payload gives the empty dict.
QuoteReturned ==
    /\ prof_pc = "quote"
    /\ SubEnded
    /\ Return(Sub)
    /\ \E q \in (IF SubPayload THEN QuoteData ELSE {NoQuote}) :
          AfterQuoteFix(FixFromQuote(profile, locals, q), locals)
    /\ UNCHANGED <<prof_key, locals, metrics, fetched>>

\* _get_key_metrics_fallback, lines 279-282, called at line 250.
MetricsCall ==
    /\ prof_pc = "metrics_call"
    /\ Enter(Sub, prof_key)
    /\ prof_pc' = "metrics"
    /\ fetched' = fetched \cup {"metrics"}
    /\ UNCHANGED <<prof_key, profile, locals, metrics>>

\* Lines 282-288, 251-260 and 197-201: the key-metrics fetch has ended.
MetricsReturned ==
    /\ prof_pc = "metrics"
    /\ SubEnded
    /\ Return(Sub)
    /\ \E m \in (IF SubPayload THEN MetricsData ELSE {NoMetrics}) :
          profile' = Tagged(FixFromMetrics(profile, locals, m))
    /\ prof_pc' = "profile_done"
    /\ UNCHANGED <<prof_key, locals, metrics, fetched>>

\* get_key_metrics, lines 312-315
get_key_metrics(k) ==
    /\ prof_pc = "idle"
    /\ Enter(Sub, k)
    /\ prof_pc' = "key_metrics"
    /\ prof_key' = k
    /\ UNCHANGED <<profile, locals, metrics, fetched>>

\* get_key_metrics, lines 315-326
KeyMetricsReturned ==
    /\ prof_pc = "key_metrics"
    /\ SubEnded
    /\ Return(Sub)
    /\ IF ~SubPayload
       THEN prof_pc' = "raised" /\ UNCHANGED metrics
       ELSE /\ prof_pc' = "metrics_done"
            /\ \/ metrics' = [NoMetrics EXCEPT !.metrics_freshness = "fallback"]
               \/ \E m \in MetricsData :
                     metrics' = [m EXCEPT !.metrics_freshness = MetricsFreshness(m)]
    /\ UNCHANGED <<prof_key, profile, locals, fetched>>

\* The caller has the profile, the metrics or the error.
Taken ==
    /\ prof_pc \in {"profile_done", "metrics_done", "raised"}
    /\ prof_pc' = "idle"
    /\ prof_key' = NoKey
    /\ profile' = NoProfile
    /\ locals' = NoLocals
    /\ metrics' = NoMetrics
    /\ fetched' = {}
    /\ status_out' = NoStatus
    /\ UNCHANGED <<date, api_key_timers, api_key_daily_counts, api_key_reset_dates,
                   pc, api_key_hash, daily_count, attempt, sleep_left, result,
                   calls, last, prior, backoff_total, reset_from, since_net,
                   ok_2xx, payloads, history>>

\* What a supplementary or main fetch is answered: a payload, a terminal
\* status, a retryable status or a timeout.
ProfResponses == {"200", "401", "429", "timeout"}

\* No time passes between the return of one awaited fetch and the call of
\* the next: both lie in one run of the coroutine.
Running == prof_pc \in {"quote_call", "metrics_call"}

\* One caller fetching profiles and key metrics, one after another; the date
\* may change between any two runs of its coroutine.
NextProf ==
    \/ \E k \in {fmp_api_key, NoKey} : get_company_profile(k) /\ Apart
    \/ ProfileReturned /\ Apart
    \/ QuoteCall /\ Apart
    \/ QuoteReturned /\ Apart
    \/ MetricsCall /\ Apart
    \/ MetricsReturned /\ Apart
    \/ \E k \in {fmp_api_key, NoKey} : get_key_metrics(k) /\ Apart
    \/ KeyMetricsReturned /\ Apart
    \/ Taken /\ Apart
    \/ Wake(Sub) /\ Quiet
    \/ \E r \in ProfResponses : Respond(Sub, r) /\ Quiet
    \/ \E d \in Deadlines : ~Running /\ Advance(d) /\ Quiet
    \/ ~Running /\ DateTick /\ Quiet

ProfSpec == Init /\ [][NextProf]_vars

\* ------------------------------------------------------------ two credentials

\* A fetch with the api_key argument k, remembered.
IsoEnter(t, k) ==
    /\ Enter(t, k)
    /\ api_key' = [api_key EXCEPT ![t] = k]
    /\ UNCHANGED <<asked, profVars, evalVars>>

IsoReturn(t) ==
    /\ Return(t)
    /\ api_key' = [api_key EXCEPT ![t] = "none"]
    /\ UNCHANGED <<asked, profVars, evalVars>>

\* A status query with the api_key argument k, remembered.
IsoStatus(k) ==
    /\ get_rate_limit_status(k)
    /\ asked' = k
    /\ UNCHANGED <<api_key, profVars, evalVars>>

\* The step after a status query: its snapshot is with the caller.
IsoForget == asked' = "none" /\ UNCHANGED <<api_key, profVars, evalVars>>

\* Requests carrying their own key in X-FMP-API-Key (main.py lines 253, 294)
\* next to requests that carry none: one caller on the default credential,
\* named or omitted, and one on another credential, at the same time.
NextIso ==
    \/ \E k \in {fmp_api_key, NoKey} : IsoEnter("t1", k)
    \/ \E k \in Keys \ {fmp_api_key} : IsoEnter("t2", k)
    \/ \E t \in Tasks : Wake(t) /\ IsoForget
    \/ \E t \in Tasks, r \in {"200", "401"} : Respond(t, r) /\ IsoForget
    \/ \E t \in Tasks : IsoReturn(t)
    \/ \E k \in Keys \cup {NoKey} : IsoStatus(k)
    \/ \E d \in LastDeadline : Advance(d) /\ IsoForget
    \/ DateTick /\ IsoForget

IsoSpec == Init /\ [][NextIso]_vars

\* ------------------------------------------------------------ evaluation

\* A step that leaves the fetch client alone.
Untouched ==
    /\ status_out' = NoStatus
    /\ UNCHANGED <<date, api_key_timers, api_key_daily_counts, api_key_reset_dates,
                   pc, api_key_hash, daily_count, attempt, sleep_left, result,
                   calls, last, prior, backoff_total, reset_from, since_net,
                   ok_2xx, payloads, history>>

\* A step of the fetch client during an evaluation: the latest health report
\* is with its caller.
Calm ==
    /\ health' = "none"
    /\ UNCHANGED <<profVars, argVars, eval_pc, custom_weights, weights, eval_out>>

\* evaluate_company, lines 66-73: the weights are updated and the profile is
\* fetched, here a profile that needs no supplementary fetch.
evaluate_company(cw) ==
    /\ eval_pc = "idle"
    /\ \A t \in Tasks : pc[t] = "idle"
    /\ Enter(Sub, NoKey)
    /\ weights' = UpdatedWeights(weights, cw)
    /\ custom_weights' = cw
    /\ eval_pc' = "profile"
    /\ health' = "none"
    /\ UNCHANGED <<profVars, argVars, eval_out>>

\* lines 73-78: the profile has come.
ProfileFetched ==
    /\ eval_pc = "profile"
    /\ SubEnded /\ SubPayload
    /\ Return(Sub)
    /\ eval_pc' = "gather_first"
    /\ health' = "none"
    /\ UNCHANGED <<profVars, argVars, custom_weights, weights, eval_out>>

\* lines 78-85: asyncio.gather starts the fetch operations, one after the
\* other, each running to its first await; two of the four are followed.
GatherFirst ==
    /\ eval_pc = "gather_first"
    /\ Enter("t1", NoKey)
    /\ eval_pc' = "gather_second"
    /\ health' = "none"
    /\ UNCHANGED <<profVars, argVars, custom_weights, weights, eval_out>>

GatherSecond ==
    /\ eval_pc = "gather_second"
    /\ Enter("t2", NoKey)
    /\ eval_pc' = "gather"
    /\ health' = "none"
    /\ UNCHANGED <<profVars, argVars, custom_weights, weights, eval_out>>

\* lines 275-285: the awaited profile fetch or one of the gathered operations
\* has raised; the handler maps the message and, for the rate-limit message,
\* asks for the quota status of the credential.
EvalFail ==
    /\ eval_pc \in {"profile", "gather"}
    /\ \E t \in Tasks :
          /\ pc[t] = "done" /\ result[t] \in Errors
          /\ LET error == EvalErrorOf(Message(result[t])) IN
             IF error = "API rate limit exceeded"
             THEN /\ get_rate_limit_status(NoKey)
                  /\ eval_out' = [NoOut EXCEPT !.kind = "error", !.cause = result[t],
                                               !.message = error,
                                               !.used = status_out'.used]
             ELSE /\ Untouched
                  /\ eval_out' = [NoOut EXCEPT !.kind = "error", !.cause = result[t],
                                               !.message = error]
    /\ eval_pc' = "failed"
    /\ health' = "none"
    /\ UNCHANGED <<profVars, argVars, custom_weights, weights>>

\* lines 85-196: every gathered operation has returned; the scores are
\* computed and weighted.
EvalScore ==
    /\ eval_pc = "gather"
    /\ \A t \in Tasks : pc[t] = "done" /\ result[t] = "payload"
    /\ \E sc \in ScoreVectors :
          eval_out' = [NoOut EXCEPT !.kind = "result", !.scores = sc,
                                    !.composite = Composite(sc, weights)]
    /\ eval_pc' = "scored"
    /\ health' = "none"
    /\ Untouched
    /\ UNCHANGED <<profVars, argVars, custom_weights, weights>>

\* The request handler has the result or the error (main.py lines 255-274).
EvalTaken ==
    /\ eval_pc \in {"failed", "scored"}
    /\ eval_pc' = "idle"
    /\ eval_out' = NoOut
    /\ custom_weights' = NoWeights
    /\ health' = "none"
    /\ Untouched
    /\ UNCHANGED <<profVars, argVars, weights>>

\* main.py lines 153-195, with the evaluator available
health_check ==
    /\ get_rate_limit_status(NoKey)
    /\ health' = HealthOf(status_out'.used, rate_limit_per_day)
    /\ UNCHANGED <<profVars, argVars, eval_pc, custom_weights, weights, eval_out>>

\* What the gathered fetches are answered.
EvalResponses == {"200", "429", "401"}

\* Between the start of the first gathered operation and that of the last
\* nothing else runs.
Starting == eval_pc \in {"gather_first", "gather_second"}

\* The results of the fetches are with evaluate_company: the tasks are gone.
Collected == eval_pc \in {"idle", "failed", "scored"}

\* Requests to /evaluate, one after another, and to /health.
NextEval ==
    \/ \E cw \in {NoWeights} \cup CustomWeights : evaluate_company(cw)
    \/ ProfileFetched
    \/ GatherFirst
    \/ GatherSecond
    \/ EvalFail
    \/ EvalScore
    \/ EvalTaken
    \/ ~Starting /\ health_check
    \/ \E t \in Tasks : ~Starting /\ Wake(t) /\ Calm
    \/ \E t \in Tasks, r \in EvalResponses : ~Starting /\ Respond(t, r) /\ Calm
    \/ \E t \in Tasks : Collected /\ Return(t) /\ Calm
    \/ \E d \in LastDeadline : ~Starting /\ Advance(d) /\ Calm
    \/ Collected /\ DateTick /\ Calm

EvalSpec == Init /\ [][NextEval]_vars

\* ------------------------------------------------------------ properties

\* The step in which task t enters _rate_limited_request.
Entering(t) == pc[t] = "idle" /\ pc'[t] # "idle"

\* The step in which task t issues an HTTP GET.
Issuing(t) == pc[t] # "request" /\ pc'[t] = "request"

\* 1 + 2 + ... + n
Tri(n) == IF n <= 0 THEN 0 ELSE (n * (n + 1)) \div 2

Active(t) == pc[t] # "idle"

\* C1: a fetch entered for a credential whose daily_count, after the date
\* reset, is at or above the daily limit fails with the daily-quota error in
\* that very step: no GET is issued, no sleep is started, and daily_count
\* (as reset) and the last-call time of the credential stay as they are.
C1_QuotaGateRejects ==
    [][\A t \in Tasks :
        (Entering(t) /\ CountAfterReset(api_key_hash'[t]) >= rate_limit_per_day)
        => /\ pc'[t] = "done"
           /\ result'[t] = "DailyQuotaExceeded"
           /\ since_net' = since_net
           /\ sleep_left' = sleep_left
           /\ attempt'[t] = 0
           /\ api_key_timers' = api_key_timers
           /\ api_key_daily_counts'[api_key_hash'[t]]
                  = CountAfterReset(api_key_hash'[t])]_vars

C1_Witness ==
    \E t \in Tasks :
        /\ pc[t] = "done"
        /\ result[t] = "DailyQuotaExceeded"
        /\ api_key_daily_counts[api_key_hash[t]] = rate_limit_per_day

\* C2: the stored daily_count of every credential is between 0 and the daily
\* limit, whatever the interleaving of fetches and status queries.
C2_CountWithinLimit ==
    \A h \in Hashes :
        api_key_daily_counts[h] >= 0 /\ api_key_daily_counts[h] <= rate_limit_per_day

\* Two fetches overlap on a credential whose count stands at the limit.
C2_Witness ==
    \E t \in Tasks, u \in Tasks :
        /\ t # u
        /\ pc[t] = "request" /\ pc[u] = "request"
        /\ api_key_hash[t] = api_key_hash[u]
        /\ api_key_daily_counts[api_key_hash[t]] = rate_limit_per_day

\* C3: on no date does the upstream answer more calls of one credential
\* with 2xx than the daily limit allows.
C3_DailyCallsWithinLimit ==
    \A h \in Hashes : ok_2xx[h] <= rate_limit_per_day

\* C4: with fetches issued one after another within one date, daily_count
\* equals the number of fetches that returned a payload, and a fetch entered
\* when that number equals the daily limit is rejected without a GET.
C4_CountEqualsPayloads ==
    [][date' = 0 =>
        /\ \A h \in Hashes : api_key_daily_counts'[h] = payloads'[h]
        /\ \A t \in Tasks :
              (Entering(t) /\ payloads[api_key_hash'[t]] = rate_limit_per_day)
              => /\ result'[t] = "DailyQuotaExceeded"
                 /\ calls'[t] = 0
                 /\ since_net' = since_net]_vars

\* C5: a fetch or a status query entered on a date other than the
\* credential's reset date sets daily_count to 0 and the reset date to the
\* current date before the quota check, so the fetch is not rejected by it.
C5_DailyReset ==
    [][/\ \A t \in Tasks :
            (Entering(t) /\ api_key_reset_dates[api_key_hash'[t]] # date)
            => /\ api_key_daily_counts'[api_key_hash'[t]] = 0
               /\ api_key_reset_dates'[api_key_hash'[t]] = date
               /\ daily_count'[t] = 0
               /\ result'[t] # "DailyQuotaExceeded"
               /\ pc'[t] \in {"pacing", "request"}
       /\ (status_out' # NoStatus /\ api_key_reset_dates[status_out'.hash] # date)
            => /\ api_key_daily_counts'[status_out'.hash] = 0
               /\ api_key_reset_dates'[status_out'.hash] = date
               /\ status_out'.used = 0]_vars

\* The first fetch on a new date goes on although the count stood at the limit.
C5_Witness ==
    \E t \in Tasks :
        /\ reset_from[t] = rate_limit_per_day
        /\ pc[t] \in {"pacing", "request"}
        /\ api_key_daily_counts[api_key_hash[t]] = 0
        /\ api_key_reset_dates[api_key_hash[t]] = date

\* C6: with fetches issued one after another, the first GET of a fetch
\* starts no earlier than min_interval seconds after the last-call time
\* the credential holds.
C6_PacingAfterSuccess ==
    \A t \in Tasks :
        (pc[t] = "request" /\ attempt[t] = 0)
        => api_key_timers[api_key_hash[t]] >= min_interval

\* The first GET of a fetch that follows a fetch which returned a payload.
C6_Witness ==
    \E t \in Tasks :
        /\ pc[t] = "request" /\ attempt[t] = 0
        /\ date = 0
        /\ payloads[api_key_hash[t]] >= 1

\* C7: for a single caller, two successive GETs for one credential start at
\* least min_interval seconds apart, retries and the fetch after a failed
\* fetch included.
C7_RoundTripsPaced ==
    [][\A t \in Tasks :
        Issuing(t) => since_net[api_key_hash'[t]] >= min_interval]_vars

C9_Exhausted429 ==
    \A t \in Tasks :
        (Active(t) /\ last[t] = "429" /\ prior[t] \in {"none", "429"})
        => /\ calls[t] <= max_retries
           /\ (pc[t] = "done" \/ calls[t] = max_retries)
                => /\ pc[t] = "done"
                   /\ calls[t] = max_retries
                   /\ result[t] = "RateLimitExceeded"
                   /\ sleep_left[t] = 0
                   /\ backoff_total[t] = retry_delay * Tri(max_retries - 1)

C9_Witness ==
    \E t \in Tasks :
        /\ pc[t] = "done" /\ result[t] = "RateLimitExceeded"
        /\ prior[t] = "429" /\ calls[t] = max_retries

\* C10: a 401, 403 or 404 answer, on whichever attempt, ends the fetch in
\* that step with the matching error; no sleep and no further GET follow.
C10_TerminalStatuses ==
    \A t \in Tasks :
        (Active(t) /\ last[t] \in {"401", "403", "404"})
        => /\ pc[t] = "done"
           /\ sleep_left[t] = 0
           /\ calls[t] = attempt[t] + 1
           /\ last[t] = "401" => result[t] = "InvalidCredential"
           /\ last[t] = "403" => result[t] = "PermissionDenied"
           /\ last[t] = "404" => result[t] = "ResourceNotFound"
           /\ prior[t] = "none" => (calls[t] = 1 /\ backoff_total[t] = 0)

\* A 401 on the first attempt, two attempts left.
C10_Witness ==
    \E t \in Tasks :
        /\ pc[t] = "done" /\ last[t] = "401"
        /\ calls[t] = 1 /\ max_retries > 1

\* The step in which the GET of task t is answered.
Answered(t) == pc[t] = "request" /\ pc'[t] # "request"

\* The step in which the sleep of task t ends.
Waking(t) == pc[t] = "backoff" /\ pc'[t] # "backoff"

\* C11: a 500 answer to an attempt that is not the last is followed by a
\* backoff sleep and another GET.
C11_Retry500 ==
    \A t \in Tasks :
        (Active(t) /\ last[t] = "500" /\ calls[t] < max_retries)
        => pc[t] = "backoff"

\* C12: a 502 (503) answer to attempt a < max_retries - 1 starts a sleep of
\* 10 * (a + 1) (15 * (a + 1)) seconds, after which the next GET is issued;
\* a fetch answered 502 or 503 on every attempt ends with the last answer,
\* after exactly max_retries GETs, with the upstream-unavailable error.
C12_Unavailable ==
    [][\A t \in Tasks :
        /\ (Answered(t) /\ last'[t] \in {"502", "503"})
           => /\ (attempt[t] < max_retries - 1)
                 => /\ pc'[t] = "backoff"
                    /\ last'[t] = "502" => sleep_left'[t] = 10 * (attempt[t] + 1)
                    /\ last'[t] = "503" => sleep_left'[t] = 15 * (attempt[t] + 1)
              /\ (attempt[t] >= max_retries - 1
                    /\ prior[t] \in {"none", "unavailable"})
                 => /\ pc'[t] = "done"
                    /\ result'[t] = "UpstreamUnavailable"
                    /\ calls[t] = max_retries
                    /\ sleep_left'[t] = 0
        /\ (Waking(t) /\ last[t] \in {"502", "503"})
           => /\ sleep_left[t] = 0
              /\ pc'[t] = "request"
              /\ attempt'[t] = attempt[t] + 1
              /\ calls'[t] = calls[t] + 1]_vars

\* 502, then 503, then 502: the fetch fails after the third GET.
C12_Witness ==
    \E t \in Tasks :
        /\ pc[t] = "done" /\ result[t] = "UpstreamUnavailable"
        /\ prior[t] = "unavailable" /\ calls[t] = max_retries
        /\ backoff_total[t] = 10 + 15 * 2

\* C13: a connection failure or a timeout on attempt a < max_retries - 1
\* starts a sleep of 5 * (a + 1) seconds, after which the next GET is issued;
\* a fetch whose every attempt fails in one of these two ways ends after
\* exactly max_retries GETs with the network error, for timeouts as for
\* connection failures.
C13_NetworkFailures ==
    [][\A t \in Tasks :
        /\ (Answered(t) /\ last'[t] \in {"connect", "timeout"})
           => /\ (attempt[t] < max_retries - 1)
                 => /\ pc'[t] = "backoff"
                    /\ sleep_left'[t] = 5 * (attempt[t] + 1)
              /\ (attempt[t] >= max_retries - 1
                    /\ prior[t] \in {"none", "network"})
                 => /\ pc'[t] = "done"
                    /\ result'[t] = "NetworkError"
                    /\ calls[t] = max_retries
                    /\ sleep_left'[t] = 0
        /\ (Waking(t) /\ last[t] \in {"connect", "timeout"})
           => /\ sleep_left[t] = 0
              /\ pc'[t] = "request"
              /\ attempt'[t] = attempt[t] + 1
              /\ calls'[t] = calls[t] + 1]_vars

\* A connection failure, then two timeouts: the fetch fails after the third GET.
C13_Witness ==
    \E t \in Tasks :
        /\ pc[t] = "done" /\ result[t] = "NetworkError"
        /\ last[t] = "timeout"
        /\ prior[t] = "network" /\ calls[t] = max_retries
        /\ backoff_total[t] = 5 + 5 * 2

\* C14: whatever the upstream answers, a fetch that was entered comes to an
\* end; it ends with the payload of a 200 answer or with an error, never
\* with neither, and it issues at most max_retries GETs.
C14_BoundedRetry ==
    /\ [](\A t \in Tasks :
            /\ calls[t] <= max_retries
            /\ attempt[t] < max_retries
            /\ pc[t] = "done" => result[t] \in {"payload"} \cup Errors
            /\ (pc[t] = "done" /\ result[t] = "payload") => last[t] = "200"
            /\ (pc[t] = "done" /\ result[t] # "payload") => last[t] # "200")
    /\ \A t \in Tasks : Active(t) ~> (pc[t] = "done")

\* A fetch that used every attempt on outcomes of different kinds and then
\* got its payload.
C14_Witness ==
    \E t \in Tasks :
        /\ pc[t] = "done" /\ result[t] = "payload"
        /\ prior[t] = "mixed" /\ calls[t] = max_retries

\* C15: two failed fetches whose errors are of different kinds raise
\* exceptions of different classes, so that their callers tell them apart
\* without reading the message.
C15_TypedFailures ==
    \A t \in Tasks, u \in Tasks :
        (/\ pc[t] = "done" /\ pc[u] = "done"
         /\ result[t] \in Errors /\ result[u] \in Errors
         /\ result[t] # result[u])
        => RaisedClass(result[t]) # RaisedClass(result[u])

\* C16: a status query issues no GET and starts no sleep, leaves every
\* last-call time and every other credential's count alone, sets the
\* queried credential's daily_count to 0 if its reset date is absent or not
\* the current date and leaves it alone otherwise, and reports that count as
\* used and the daily limit less that count as remaining.
C16_StatusReadOnly ==
    [][status_out' # NoStatus =>
        LET h == status_out'.hash IN
        /\ h \in Hashes
        /\ <<pc, calls, attempt, sleep_left, since_net, result>>'
              = <<pc, calls, attempt, sleep_left, since_net, result>>
        /\ api_key_timers' = api_key_timers
        /\ \A g \in Hashes \ {h} :
              /\ api_key_daily_counts'[g] = api_key_daily_counts[g]
              /\ api_key_reset_dates'[g] = api_key_reset_dates[g]
        /\ api_key_daily_counts'[h] =
              IF api_key_reset_dates[h] = NoDate \/ api_key_reset_dates[h] # date
              THEN 0 ELSE api_key_daily_counts[h]
        /\ status_out'.used = api_key_daily_counts'[h]
        /\ status_out'.remaining = rate_limit_per_day - api_key_daily_counts'[h]]_vars

\* A status query made while a fetch is waiting for its answer, with the
\* quota used up.
C16_Witness ==
    /\ status_out # NoStatus
    /\ status_out.used = rate_limit_per_day
    /\ status_out.remaining = 0
    /\ \E t \in Tasks : pc[t] = "request"

\* The profile payload had sharesOutstanding = 0, price > 0 and mktCap > 0.
SharesDerivable ==
    /\ locals.shares_outstanding = 0
    /\ locals.price > 0
    /\ locals.reported_mkt_cap > 0

\* C17: a profile whose payload had sharesOutstanding = 0, price > 0 and
\* mktCap > 0 is returned with sharesOutstanding = mktCap / price and
\* shares_calculated set, whatever the quote and key-metrics fetches return.
C17_SharesFromProfile ==
    (prof_pc = "profile_done" /\ SharesDerivable)
    => /\ profile.sharesOutstanding * locals.price = locals.reported_mkt_cap
       /\ profile.shares_calculated

\* C18: a profile whose payload had price > 0 and sharesOutstanding > 0 is
\* returned with mktCap = price * sharesOutstanding and mkt_cap_calculated
\* set if the reported mktCap differs from that product by more than 5% of
\* the product, and with the reported mktCap and no flag otherwise.
C18_MktCapCorrection ==
    (prof_pc = "profile_done" /\ locals.price > 0 /\ locals.shares_outstanding > 0)
    => LET computed == locals.price * locals.shares_outstanding
           reported == locals.reported_mkt_cap
       IN  IF Abs(reported - computed) * 100 > 5 * computed
           THEN profile.mktCap = computed /\ profile.mkt_cap_calculated
           ELSE profile.mktCap = reported /\ ~profile.mkt_cap_calculated

\* C19: the quote is fetched only while the profile still lacks its price or
\* its shares, the key metrics only while it still lacks its market cap; a
\* profile whose shares were derived from its own price and market cap is
\* returned without either fetch.
C19_ShortCircuit ==
    /\ prof_pc = "quote_call"
       => (profile.price = 0 \/ profile.sharesOutstanding = 0)
    /\ prof_pc = "metrics_call" => profile.mktCap = 0
    /\ (prof_pc = "profile_done" /\ SharesDerivable) => fetched = {}

\* C20: a returned profile is tagged fresh if its mktCap and companyName are
\* both non-empty and fallback if not (the dict returned for an empty payload
\* included); the first record of returned key metrics is tagged fresh if
\* its marketCap and revenuePerShare are both non-empty and fallback if not.
C20_Freshness ==
    /\ prof_pc = "profile_done"
       => profile.profile_freshness =
             IF profile.mktCap # 0 /\ profile.companyName # ""
             THEN "fresh" ELSE "fallback"
    /\ prof_pc = "metrics_done"
       => metrics.metrics_freshness =
             IF metrics.marketCap # 0 /\ metrics.revenuePerShare # 0
             THEN "fresh" ELSE "fallback"

\* A profile that came without a market cap, was given one from the key
\* metrics and is tagged fresh.
C20_Witness ==
    /\ prof_pc = "profile_done"
    /\ locals.reported_mkt_cap = 0
    /\ profile.mkt_cap_from_metrics
    /\ profile.companyName # ""
    /\ profile.profile_freshness = "fresh"

\* Two different fetches on one credential.
Sharing(t, u) == t # u /\ Active(t) /\ Active(u) /\ api_key_hash[t] = api_key_hash[u]

\* C21: two fetches on one credential that overlapped (both read the same
\* daily_count on entry) and both returned a payload, on the date of the
\* first reset, leave daily_count two above what they read.
C21_NoLostUpdate ==
    \A t \in Tasks, u \in Tasks :
        (/\ Sharing(t, u)
         /\ date = 0
         /\ pc[t] = "done" /\ result[t] = "payload"
         /\ pc[u] = "done" /\ result[u] = "payload"
         /\ daily_count[t] = daily_count[u])
        => api_key_daily_counts[api_key_hash[t]] = daily_count[t] + 2

\* C22: the pacing check looks at the stored last-call time alone, and the
\* GET of one fetch leaves that time as it is: a fetch entered while the time
\* is min_interval or more old issues its GET at once, one entered earlier
\* sleeps for the rest of the interval, and a fetch whose pacing sleep is
\* over stays free to issue its GET when another fetch issues one.
C22_PacingCheckedOnce ==
    [][\A t \in Tasks :
        /\ (Entering(t) /\ result'[t] # "DailyQuotaExceeded")
           => IF api_key_timers[api_key_hash'[t]] >= min_interval
              THEN pc'[t] = "request"
              ELSE /\ pc'[t] = "pacing"
                   /\ sleep_left'[t] = min_interval - api_key_timers[api_key_hash'[t]]
        /\ Issuing(t)
           => /\ api_key_timers' = api_key_timers
              /\ \A u \in Tasks \ {t} :
                    (pc[u] = "pacing" /\ sleep_left[u] = 0)
                    => (pc'[u] = "pacing" /\ sleep_left'[u] = 0)]_vars

\* The race: after a call that set the last-call time, two fetches on the
\* credential have both passed the pacing check and their first GETs are in
\* flight together, the second issued less than min_interval after the first.
C22_Witness ==
    \E t \in Tasks, u \in Tasks :
        /\ Sharing(t, u)
        /\ pc[t] = "request" /\ attempt[t] = 0
        /\ pc[u] = "request" /\ attempt[u] = 0
        /\ ok_2xx[api_key_hash[t]] >= 1
        /\ since_net[api_key_hash[t]] < min_interval

\* C23: on the date of the first reset, with fetches issued one after
\* another, a fetch that has ended with an error has left daily_count at the
\* value it read on entry, and one that has ended with a payload has left it
\* one above.
C23_MutatedOnlyBySuccess ==
    \A t \in Tasks :
        (pc[t] = "done" /\ date = 0)
        => IF result[t] = "payload"
           THEN api_key_daily_counts[api_key_hash[t]] = daily_count[t] + 1
           ELSE api_key_daily_counts[api_key_hash[t]] = daily_count[t]

\* C25: a credential whose reset date is the current date has a daily_count
\* no greater than the number of 2xx answers it got on that date, and a
\* fetch is rejected by the quota gate only if the credential got as many
\* 2xx answers on the current date as the daily limit.
C25_CountSinceReset ==
    [][/\ \A h \in Hashes :
            api_key_reset_dates'[h] = date' => api_key_daily_counts'[h] <= ok_2xx'[h]
       /\ \A t \in Tasks :
            (Entering(t) /\ result'[t] = "DailyQuotaExceeded")
            => ok_2xx[api_key_hash'[t]] >= rate_limit_per_day]_vars

\* C26: a quote or key-metrics fetch that ends with an error does not end
\* get_company_profile with an error: the profile is kept as it was and the
\* coroutine goes on to the next fallback or returns the profile with its
\* tag; get_company_profile raises only the error of its profile fetch.
C26_SupplementaryAbsorbed ==
    [][/\ (/\ prof_pc \in {"quote", "metrics"}
           /\ prof_pc' # prof_pc
           /\ result[Sub] # "payload")
          => /\ prof_pc' \in {"metrics_call", "profile_done"}
             /\ [profile' EXCEPT !.profile_freshness = ""]
                   = [profile EXCEPT !.profile_freshness = ""]
             /\ prof_pc' = "profile_done"
                   => profile'.profile_freshness \in {"fresh", "fallback"}
       /\ (prof_pc' = "raised" /\ prof_pc # "raised")
          => /\ prof_pc \in {"profile", "key_metrics"}
             /\ result[Sub] \in Errors]_vars

\* A profile returned after both supplementary fetches were made and the
\* profile fetch was the only one answered with a 2xx.
C26_Witness ==
    /\ prof_pc = "profile_done"
    /\ fetched = {"quote", "metrics"}
    /\ date = 0
    /\ ok_2xx[_get_api_key_hash(fmp_api_key)] = 1
    /\ profile.profile_freshness \in {"fresh", "fallback"}

\* The credential an api_key argument stands for.
CredentialOf(k) == IF k = NoKey THEN fmp_api_key ELSE k

\* The quota state kept for credential c.
QuotaState(c) ==
    LET h == _get_api_key_hash(c) IN
    <<api_key_daily_counts[h], api_key_reset_dates[h], api_key_timers[h]>>

\* C24: a fetch or a status query on one credential leaves daily_count,
\* reset date and last-call time of every other credential as they are; a
\* fetch is rejected exactly if its own credential's daily_count, after the
\* date reset, has reached the limit, and is made to wait exactly as long as
\* its own credential's last-call time asks for; an omitted credential
\* stands for the process default.
C24_Isolation ==
    [][/\ \A t \in Tasks :
            Entering(t) =>
               LET a == CredentialOf(api_key'[t])
                   own == QuotaState(a)
                   count == IF own[2] = date THEN own[1] ELSE 0
               IN  /\ \A b \in Keys \ {a} : QuotaState(b)' = QuotaState(b)
                   /\ result'[t] = "DailyQuotaExceeded" <=> count >= rate_limit_per_day
                   /\ count < rate_limit_per_day
                      => IF own[3] >= min_interval
                         THEN pc'[t] = "request"
                         ELSE pc'[t] = "pacing" /\ sleep_left'[t] = min_interval - own[3]
       /\ \A t \in Tasks :
            Answered(t) =>
               \A b \in Keys \ {CredentialOf(api_key[t])} : QuotaState(b)' = QuotaState(b)
       /\ status_out' # NoStatus =>
               LET a == CredentialOf(asked') IN
               /\ \A b \in Keys \ {a} : QuotaState(b)' = QuotaState(b)
               /\ status_out'.used =
                     IF QuotaState(a)[2] = date THEN QuotaState(a)[1] ELSE 0]_vars

\* A fetch on the default credential, passed by omission, goes ahead at once
\* while the other credential has used up its quota and has just been called.
C24_Witness ==
    /\ pc["t1"] = "request" /\ api_key["t1"] = NoKey
    /\ since_net[_get_api_key_hash(fmp_api_key)] = 0
    /\ \E b \in Keys \ {fmp_api_key} :
          /\ QuotaState(b)[1] = rate_limit_per_day
          /\ QuotaState(b)[2] = date
          /\ QuotaState(b)[3] < min_interval

\* C27: an evaluation that failed on the daily-quota error of a fetch raises
\* the 'Daily API limit reached' error, and one that failed on the error of
\* exhausted 429 retries raises the 'API rate limit exceeded' error with the
\* daily_count of the credential.
C27_QuotaFailuresDistinct ==
    eval_pc = "failed"
    => /\ eval_out.cause = "DailyQuotaExceeded"
          => eval_out.message = "Daily API limit reached"
       /\ eval_out.cause = "RateLimitExceeded"
          => /\ eval_out.message = "API rate limit exceeded"
             /\ eval_out.used = status_out.used

\* C28: while an evaluation stands failed, no fetch started by it issues a
\* GET, and no answer to one writes daily_count or the last-call time.
C28_NoCallsAfterFailure ==
    [][eval_pc = "failed"
       => \A t \in Tasks :
             /\ ~Issuing(t)
             /\ Answered(t)
                => /\ api_key_daily_counts' = api_key_daily_counts
                   /\ api_key_timers' = api_key_timers]_vars

\* C29: an evaluation made without custom_weights weights its scores with
\* the default weights.
C29_WeightsDoNotLeak ==
    (eval_pc = "scored" /\ DOMAIN custom_weights = {})
    => eval_out.composite = Composite(eval_out.scores, DefaultWeights)

\* C30: the status /health reports is 'unhealthy' when the daily_count of
\* the default credential is over 95% of the daily limit, 'degraded' when it
\* is over 80% but not over 95%, and 'healthy' otherwise.
C30_HealthThresholds ==
    LET used == api_key_daily_counts[_get_api_key_hash(fmp_api_key)] IN
    health # "none"
    => health = IF used * 100 > 95 * rate_limit_per_day THEN "unhealthy"
                ELSE IF used * 100 > 80 * rate_limit_per_day THEN "degraded"
                ELSE "healthy"

====
